---- MODULE Spec2Model ----
(***************************************************************************)
(* Model of src/src/mailmap.rs (git2-rs): the Mailmap binding.             *)
(*                                                                         *)
(* The Rust methods are thin wrappers: each converts its arguments to C    *)
(* strings, calls one raw::git_mailmap_* function and converts the result  *)
(* back.  The wrappers are translated from the source.  The raw functions  *)
(* live in the native library, whose code is not part of src/: they are    *)
(* modelled from spec.md (sections 3 and 4) and carry the raw names        *)
(* (git_mailmap_add_entry, git_mailmap_resolve, ...).                      *)
(*                                                                         *)
(* Strings are sequences of characters; a character is a one-symbol TLA+   *)
(* string ("a", "A", "<", ...).  NUL stands for the zero byte, XFF for a   *)
(* byte that is not valid UTF-8, LF for the line feed.  Option<T> is a     *)
(* sequence of length 0 (None) or 1 (Some); Result<T, Error> is a record   *)
(* [ok, val] or [ok, err].                                                 *)
(*                                                                         *)
(* Three specifications share the state (the store of one Mailmap object   *)
(* and the last call made on it):                                          *)
(*   Spec      new, add_entry, resolve                                     *)
(*   SpecSig   new, add_entry, resolve_signature                           *)
(*   SpecLoad  from_buffer, from_repository, resolve                       *)
(***************************************************************************)
EXTENDS Integers, Sequences, FiniteSets, TLC

VARIABLES entries, last

vars == <<entries, last>>

\* Bounds of the model.
MaxEntries == 2
MaxLines == 2

---------------------------------------------------------------------------
\* Characters and strings

NUL == "NUL"
XFF == "XFF"
LF == "LF"
SP == " "

None == <<>>
Some(v) == <<v>>
IsSome(o) == Len(o) = 1
Unwrap(o) == o[1]

Ok(v) == [ok |-> TRUE, val |-> v]
Err(e) == [ok |-> FALSE, err |-> e]

\* ASCII lower-casing of one byte, as a case-insensitive comparison does it.
LowerChar(c) ==
    CASE c = "A" -> "a"
      [] c = "B" -> "b"
      [] c = "C" -> "c"
      [] c = "X" -> "x"
      [] c = "Y" -> "y"
      [] OTHER -> c

Lower(s) == [i \in DOMAIN s |-> LowerChar(s[i])]

\* CString::new(s): fails when s holds an interior zero byte.
HasNul(s) == \E i \in DOMAIN s : s[i] = NUL

\* CStr::to_str(): fails when the bytes are not valid UTF-8.
ValidUtf8(s) == \A i \in DOMAIN s : s[i] # XFF

---------------------------------------------------------------------------
\* The native store (modelled from spec.md sections 3, 4.2, 4.3)

Entry(rn, re, pn, pe) ==
    [real_name |-> rn, real_email |-> re, replace_name |-> pn, replace_email |-> pe]

\* The key comparison with replace_email compared byte for byte.
SameKeyExactEmail(e, pn, pe) ==
    /\ e.replace_name = pn
    /\ e.replace_email = pe

SameKey(e, pn, pe) ==
    /\ e.replace_name = pn
    /\ Lower(e.replace_email) = Lower(pe)

MaxOf(S) == CHOOSE m \in S : \A k \in S : k <= m

\* Position of the entry stored under the key (pn, pe); 0 when there is none.
FindKey(mm, pn, pe) ==
    LET hits == {i \in DOMAIN mm : SameKey(mm[i], pn, pe)}
    IN IF hits = {} THEN 0 ELSE MaxOf(hits)

git_mailmap_new == Ok(<<>>)

\* Insert or replace in place; an empty replace_email is rejected.
git_mailmap_add_entry(mm, rn, re, pn, pe) ==
    IF pe = <<>>
    THEN Err("InvalidArgument")
    ELSE LET e == Entry(rn, re, pn, pe)
             i == FindKey(mm, pn, pe)
         IN Ok(IF i > 0 THEN [mm EXCEPT ![i] = e] ELSE Append(mm, e))

\* The entry a lookup of (name, email) applies: a name-qualified entry of the
\* email first, the wildcard entry of the email otherwise; 0 when none.
Select(mm, name, email) ==
    LET q == FindKey(mm, Some(name), email)
    IN IF q > 0 THEN q ELSE FindKey(mm, None, email)

\* Pointers: the two argument buffers, or a field of a stored entry.
CNamePtr == [region |-> "cname"]
CEmailPtr == [region |-> "cemail"]
EntryPtr(i, f) == [region |-> "entry", idx |-> i, field |-> f]

\* git_mailmap_resolve(&rname, &remail, mm, cname, cemail): the out pointers
\* are the argument pointers unless the applied entry provides the field.
git_mailmap_resolve(mm, cname, cemail) ==
    LET i == Select(mm, cname, cemail)
    IN [rc |-> 0,
        rname |-> IF i > 0 /\ IsSome(mm[i].real_name)
                  THEN EntryPtr(i, "real_name") ELSE CNamePtr,
        remail |-> IF i > 0 /\ IsSome(mm[i].real_email)
                   THEN EntryPtr(i, "real_email") ELSE CEmailPtr]

\* The bytes a pointer refers to.
Deref(p, mm, cname, cemail) ==
    CASE p.region = "cname" -> cname
      [] p.region = "cemail" -> cemail
      [] p.region = "entry" /\ p.field = "real_name" -> Unwrap(mm[p.idx].real_name)
      [] p.region = "entry" /\ p.field = "real_email" -> Unwrap(mm[p.idx].real_email)

\* A name or email a signature cannot carry.
Forbidden(s) == \E i \in DOMAIN s : s[i] \in {"<", ">", LF}

Signature(name, email, when, offset) ==
    [name |-> name, email |-> email, when |-> when, offset |-> offset]

\* Resolve the signature's identity and build a new signature around it, the
\* time and offset copied.
git_mailmap_resolve_signature(mm, sig) ==
    LET r == git_mailmap_resolve(mm, sig.name, sig.email)
        name == Deref(r.rname, mm, sig.name, sig.email)
        email == Deref(r.remail, mm, sig.name, sig.email)
    IN IF Forbidden(name) \/ Forbidden(email)
       THEN Err("InvalidSignature")
       ELSE Ok(Signature(name, email, sig.when, sig.offset))

---------------------------------------------------------------------------
\* The native parser (modelled from spec.md section 4.1)

IsSpace(c) == c = SP

\* body applied to the value of v (v is evaluated once).
With(v, body(_)) == CHOOSE y \in {body(x) : x \in {v}} : TRUE

Trim(s) ==
    LET solid == {i \in DOMAIN s : ~IsSpace(s[i])}
    IN IF solid = {} THEN <<>>
       ELSE SubSeq(s, CHOOSE i \in solid : \A k \in solid : i <= k, MaxOf(solid))

\* First position of c in s; 0 when s does not hold it.
IndexOf(s, c) ==
    LET at == {i \in DOMAIN s : s[i] = c}
    IN IF at = {} THEN 0 ELSE CHOOSE i \in at : \A k \in at : i <= k

\* A trimmed field; empty is absent.
OptStr(s) == With(Trim(s), LAMBDA t : IF t = <<>> THEN None ELSE Some(t))

\* The lines of a buffer, split at line feeds.
RECURSIVE SplitLines(_)
SplitLines(buf) ==
    With(IndexOf(buf, LF), LAMBDA nl :
        IF nl = 0 THEN <<buf>>
        ELSE <<SubSeq(buf, 1, nl - 1)>>
                 \o With(SubSeq(buf, nl + 1, Len(buf)), LAMBDA rest : SplitLines(rest)))

\* "[name] <email>" at the head of s: the name, the email and what follows
\* the ">", or None when s holds no "<" or no ">" after it.
ParseField(s) ==
    With(IndexOf(s, "<"), LAMBDA lt :
        IF lt = 0 THEN None
        ELSE With(SubSeq(s, lt + 1, Len(s)), LAMBDA after :
                 With(IndexOf(after, ">"), LAMBDA gt :
                     IF gt = 0 THEN None
                     ELSE Some([name |-> SubSeq(s, 1, lt - 1),
                                email |-> Trim(SubSeq(after, 1, gt - 1)),
                                rest |-> SubSeq(after, gt + 1, Len(after))]))))

\* The entry of a line that holds one bracketed email (a) or two (a, then b).
EntryOfFields(a, f2) ==
    IF Trim(a.rest) = <<>>
    THEN IF a.email = <<>> THEN None
         ELSE Some(Entry(OptStr(a.name), Some(a.email), None, a.email))
    ELSE IF f2 = None THEN None
    ELSE With(Unwrap(f2), LAMBDA b :
             IF Trim(b.rest) # <<>> \/ b.email = <<>> THEN None
             ELSE Some(Entry(OptStr(a.name), OptStr(a.email), OptStr(b.name), b.email)))

\* The entry of one line: None for a blank line, a comment and a line that
\* does not parse.
ParseLine(line) ==
    With(Trim(line), LAMBDA t :
        IF t = <<>> \/ Head(t) = "#" THEN None
        ELSE With(ParseField(t), LAMBDA f1 :
                 IF f1 = None THEN None
                 ELSE With(Unwrap(f1), LAMBDA a :
                          With(ParseField(a.rest), LAMBDA f2 : EntryOfFields(a, f2)))))

\* The store with the entry of one line added; a line without an entry, or
\* with one the store refuses, leaves it as it is.
AddLine(mm, line) ==
    With(ParseLine(line), LAMBDA e :
        IF e = None THEN mm
        ELSE With(git_mailmap_add_entry(mm, Unwrap(e).real_name, Unwrap(e).real_email,
                                        Unwrap(e).replace_name, Unwrap(e).replace_email),
                  LAMBDA r : IF r.ok THEN r.val ELSE mm))

\* Add the entries of the lines to the store, in file order.
RECURSIVE AddLines(_, _)
AddLines(mm, lines) ==
    IF lines = <<>> THEN mm
    ELSE With(AddLine(mm, Head(lines)), LAMBDA m :
             With(Tail(lines), LAMBDA rest : AddLines(m, rest)))

git_mailmap_from_buffer(buf) ==
    Ok(With(SplitLines(buf), LAMBDA lines : AddLines(<<>>, lines)))

\* A source of a repository: its bytes, or nothing when it is absent or
\* cannot be read.
Absent == [kind |-> "absent"]
Unreadable == [kind |-> "unreadable"]
Readable(buf) == [kind |-> "bytes", bytes |-> buf]

AddSource(mm, src) ==
    IF src.kind = "bytes"
    THEN With(SplitLines(src.bytes), LAMBDA lines : AddLines(mm, lines))
    ELSE mm

\* The sources merged in the order file, blob, working tree.
git_mailmap_from_repository_file_first(repo) ==
    IF repo.broken THEN Err("RepositoryAccessError")
    ELSE Ok(With(AddSource(<<>>, repo.file), LAMBDA m1 :
                With(AddSource(m1, repo.blob), LAMBDA m2 :
                    AddSource(m2, repo.worktree))))

\* The sources merged in the order working tree, blob, file.
git_mailmap_from_repository(repo) ==
    IF repo.broken THEN Err("RepositoryAccessError")
    ELSE Ok(With(AddSource(<<>>, repo.worktree), LAMBDA m1 :
                With(AddSource(m1, repo.blob), LAMBDA m2 :
                    AddSource(m2, repo.file))))

---------------------------------------------------------------------------
\* The Rust methods (src/src/mailmap.rs)

\* ::opt_cstr(v)?: None passes; Some(s) must convert to a CString.
opt_cstr_fails(o) == IsSome(o) /\ HasNul(Unwrap(o))

\* Mailmap::new
new == git_mailmap_new

\* add_entry with real_name and replace_name passed in each other's place.
add_entry_names_swapped(mm, real_name, real_email, replace_name, replace_email) ==
    IF opt_cstr_fails(real_name) THEN Err("NulError")
    ELSE IF opt_cstr_fails(real_email) THEN Err("NulError")
    ELSE IF opt_cstr_fails(replace_name) THEN Err("NulError")
    ELSE IF HasNul(replace_email) THEN Err("NulError")
    ELSE git_mailmap_add_entry(mm, replace_name, real_email, real_name, replace_email)

\* add_entry without the conversion check of replace_email.
add_entry_email_unchecked(mm, real_name, real_email, replace_name, replace_email) ==
    IF opt_cstr_fails(real_name) THEN Err("NulError")
    ELSE IF opt_cstr_fails(real_email) THEN Err("NulError")
    ELSE IF opt_cstr_fails(replace_name) THEN Err("NulError")
    ELSE git_mailmap_add_entry(mm, real_name, real_email, replace_name, replace_email)

\* Mailmap::add_entry: the new store, or the error.
add_entry(mm, real_name, real_email, replace_name, replace_email) ==
    IF opt_cstr_fails(real_name) THEN Err("NulError")
    ELSE IF opt_cstr_fails(real_email) THEN Err("NulError")
    ELSE IF opt_cstr_fails(replace_name) THEN Err("NulError")
    ELSE IF HasNul(replace_email) THEN Err("NulError")
    ELSE git_mailmap_add_entry(mm, real_name, real_email, replace_name, replace_email)

\* resolve with cname and cemail passed in each other's place.
resolve_args_swapped(mm, name, email) ==
    IF HasNul(name) THEN Err("NulError")
    ELSE IF HasNul(email) THEN Err("NulError")
    ELSE LET r == git_mailmap_resolve(mm, email, name)
             rname == Deref(r.rname, mm, name, email)
             remail == Deref(r.remail, mm, name, email)
         IN IF r.rc < 0 THEN Err("Native")
            ELSE IF r.rname # CNamePtr /\ ~ValidUtf8(rname) THEN Err("Utf8Error")
            ELSE IF r.remail # CEmailPtr /\ ~ValidUtf8(remail) THEN Err("Utf8Error")
            ELSE Ok(<<IF r.rname # CNamePtr THEN rname ELSE name,
                      IF r.remail # CEmailPtr THEN remail ELSE email>>)

\* resolve with the name's pointer comparison inverted (== for !=).
resolve_name_test_inverted(mm, name, email) ==
    IF HasNul(name) THEN Err("NulError")
    ELSE IF HasNul(email) THEN Err("NulError")
    ELSE LET r == git_mailmap_resolve(mm, name, email)
             rname == Deref(r.rname, mm, name, email)
             remail == Deref(r.remail, mm, name, email)
         IN IF r.rc < 0 THEN Err("Native")
            ELSE IF r.rname = CNamePtr /\ ~ValidUtf8(rname) THEN Err("Utf8Error")
            ELSE IF r.remail # CEmailPtr /\ ~ValidUtf8(remail) THEN Err("Utf8Error")
            ELSE Ok(<<IF r.rname = CNamePtr THEN rname ELSE name,
                      IF r.remail # CEmailPtr THEN remail ELSE email>>)

\* resolve returning the pair in the order (email, name).
resolve_result_swapped(mm, name, email) ==
    IF HasNul(name) THEN Err("NulError")
    ELSE IF HasNul(email) THEN Err("NulError")
    ELSE LET r == git_mailmap_resolve(mm, name, email)
             rname == Deref(r.rname, mm, name, email)
             remail == Deref(r.remail, mm, name, email)
         IN IF r.rc < 0 THEN Err("Native")
            ELSE IF r.rname # CNamePtr /\ ~ValidUtf8(rname) THEN Err("Utf8Error")
            ELSE IF r.remail # CEmailPtr /\ ~ValidUtf8(remail) THEN Err("Utf8Error")
            ELSE Ok(<<IF r.remail # CEmailPtr THEN remail ELSE email,
                      IF r.rname # CNamePtr THEN rname ELSE name>>)

\* resolve looking up, and handing back, the lower-cased email.
resolve_email_lowered(mm, name, email) ==
    IF HasNul(name) THEN Err("NulError")
    ELSE IF HasNul(email) THEN Err("NulError")
    ELSE LET r == git_mailmap_resolve(mm, name, Lower(email))
             rname == Deref(r.rname, mm, name, Lower(email))
             remail == Deref(r.remail, mm, name, Lower(email))
         IN IF r.rc < 0 THEN Err("Native")
            ELSE IF r.rname # CNamePtr /\ ~ValidUtf8(rname) THEN Err("Utf8Error")
            ELSE IF r.remail # CEmailPtr /\ ~ValidUtf8(remail) THEN Err("Utf8Error")
            ELSE Ok(<<IF r.rname # CNamePtr THEN rname ELSE name,
                      IF r.remail # CEmailPtr THEN remail ELSE Lower(email)>>)

\* Mailmap::resolve: the resolved pair <<name, email>>, or the error.
resolve(mm, name, email) ==
    IF HasNul(name) THEN Err("NulError")
    ELSE IF HasNul(email) THEN Err("NulError")
    ELSE LET r == git_mailmap_resolve(mm, name, email)
             rname == Deref(r.rname, mm, name, email)
             remail == Deref(r.remail, mm, name, email)
         IN IF r.rc < 0 THEN Err("Native")
            ELSE IF r.rname # CNamePtr /\ ~ValidUtf8(rname) THEN Err("Utf8Error")
            ELSE IF r.remail # CEmailPtr /\ ~ValidUtf8(remail) THEN Err("Utf8Error")
            ELSE Ok(<<IF r.rname # CNamePtr THEN rname ELSE name,
                      IF r.remail # CEmailPtr THEN remail ELSE email>>)

\* from_buffer handing the native call one byte less than the buffer holds.
from_buffer_short(buffer) ==
    git_mailmap_from_buffer(SubSeq(buffer, 1, Len(buffer) - 1))

\* Mailmap::from_buffer: the new store, or the error.
from_buffer(buffer) == git_mailmap_from_buffer(buffer)

\* Mailmap::from_repository: the new store, or the error.
from_repository(repo) == git_mailmap_from_repository(repo)

\* resolve_signature handing back a copy of the signature it was given.
resolve_signature_copies_input(mm, sig) ==
    LET r == git_mailmap_resolve_signature(mm, sig)
    IN IF r.ok THEN Ok(sig) ELSE r

\* Mailmap::resolve_signature: the new signature, or the error.
resolve_signature(mm, sig) == git_mailmap_resolve_signature(mm, sig)

---------------------------------------------------------------------------
\* Inputs

NameB == <<"b">>
NameUpperB == <<"B">>
NameC == <<"c">>
EmailX == <<"x">>
EmailUpperX == <<"X">>
EmailY == <<"y">>

RealNames == {None, Some(NameB)}
RealEmails == {None, Some(EmailY)}
ReplaceNames == {None, Some(NameB)}
ReplaceEmails == {EmailX}

\* Arguments of add_entry: the well-formed ones (every combination of present
\* and absent fields for one email, two with that email in upper case, two for
\* another email), and one per failure path.
AddArgs ==
    (RealNames \X RealEmails \X ReplaceNames \X ReplaceEmails)
    \cup {<<Some(NameC), None, None, EmailUpperX>>,
          <<None, Some(EmailY), Some(NameB), EmailUpperX>>,
          <<Some(NameC), None, None, EmailY>>,
          <<Some(NameB), Some(EmailX), Some(NameC), EmailY>>}
    \cup {<<Some(<<"b", NUL>>), None, None, EmailX>>,
          <<None, Some(<<"y", NUL>>), None, EmailX>>,
          <<None, None, Some(<<NUL, "b">>), EmailX>>,
          <<Some(NameB), None, None, <<"x", NUL>> >>,
          <<Some(NameB), Some(EmailY), None, <<>> >>,
          <<Some(<<"b", NUL>>), None, None, <<>> >>}

QueryNames == {NameB, NameUpperB, NameC}
QueryEmails == {EmailX, EmailUpperX, EmailY}

Queries ==
    (QueryNames \X QueryEmails)
    \cup {<< <<"b", NUL>>, EmailX>>, <<NameB, <<NUL>> >>}

\* Arguments of add_entry for the signature runs: one replace_email, real
\* fields a signature can and cannot carry.
NameWithBracket == <<"b", "<">>
EmailWithLineFeed == <<"y", LF>>

SigAddArgs ==
    {None, Some(NameB), Some(NameWithBracket)}
        \X {None, Some(EmailY), Some(EmailWithLineFeed)}
        \X {None, Some(NameC)}
        \X {EmailX}

Signatures ==
    {Signature(n, e, w, o) : n \in {NameB, NameC}, e \in {EmailX, EmailUpperX, EmailY},
                             w \in {1000, 2000}, o \in {-60, 120}}

\* Sample lines of a mailmap file, each with the entry it is to give (None for
\* a line that gives none).
Line(text, expect) == [text |-> text, expect |-> expect]

LineTwoEmails ==
    Line(<<"b", SP, "<", "y", ">", SP, "<", "x", ">">>,
         Some(Entry(Some(NameB), Some(EmailY), None, EmailX)))
LineQualified ==
    Line(<<"<", "y", ">", SP, "b", SP, "<", "x", ">">>,
         Some(Entry(None, Some(EmailY), Some(NameB), EmailX)))
LineOneEmail ==
    Line(<<"c", SP, "<", "x", ">">>,
         Some(Entry(Some(NameC), Some(EmailX), None, EmailX)))
LinePadded ==
    Line(<<SP, "B", SP, SP, "<", "Y", ">", SP, "c", SP, "<", SP, "X", ">", SP>>,
         Some(Entry(Some(NameUpperB), Some(<<"Y">>), Some(NameC), EmailUpperX)))
LineNotUtf8 ==
    Line(<<XFF, SP, "<", "y", ">", SP, "<", "y", ">">>,
         Some(Entry(Some(<<XFF>>), Some(EmailY), None, EmailY)))
LineComment ==
    Line(<<SP, "#", SP, "b", SP, "<", "y", ">", SP, "<", "x", ">">>, None)
LineNoEmail ==
    Line(<<"b", SP, "y">>, None)
LineUnterminated ==
    Line(<<"b", SP, "<", "x">>, None)

SampleLines ==
    {LineTwoEmails, LineQualified, LineOneEmail, LinePadded, LineNotUtf8,
     LineComment, LineNoEmail, LineUnterminated}

\* The files of at most MaxLines sample lines.
Files == UNION {[1..n -> SampleLines] : n \in 0..MaxLines}

\* The bytes of a file: its lines joined by line feeds, with or without a
\* line feed after the last.
RECURSIVE JoinLines(_)
JoinLines(ls) ==
    IF ls = <<>> THEN <<>>
    ELSE IF Len(ls) = 1 THEN Head(ls).text
    ELSE Head(ls).text \o <<LF>> \o JoinLines(Tail(ls))

Bytes(ls, nl) == JoinLines(ls) \o (IF nl /\ ls # <<>> THEN <<LF>> ELSE <<>>)

\* The sources a repository may have.
RepoFiles ==
    {<<LineTwoEmails>>, <<LineOneEmail>>, <<LineQualified, LineUnterminated>>}

Sources == {[kind |-> k, file |-> <<>>] : k \in {"absent", "unreadable"}}
               \cup {[kind |-> "bytes", file |-> f] : f \in RepoFiles}

SourceOf(src) ==
    IF src.kind = "bytes" THEN Readable(Bytes(src.file, TRUE))
    ELSE IF src.kind = "absent" THEN Absent ELSE Unreadable


---------------------------------------------------------------------------
\* The state machine: one Mailmap object (entries) and the last call made on
\* it (last).

Init ==
    /\ entries = new.val
    /\ last = [op |-> "new"]

New ==
    /\ entries' = new.val
    /\ last' = [op |-> "new"]

AddEntry(a) ==
    LET r == add_entry(entries, a[1], a[2], a[3], a[4])
    IN /\ r.ok => Len(r.val) <= MaxEntries
       /\ entries' = IF r.ok THEN r.val ELSE entries
       /\ last' = [op |-> "add_entry", real_name |-> a[1], real_email |-> a[2],
                   replace_name |-> a[3], replace_email |-> a[4],
                   res |-> IF r.ok THEN Ok(<<>>) ELSE r, before |-> entries]

Resolve(q) ==
    /\ last' = [op |-> "resolve", name |-> q[1], email |-> q[2],
                res |-> resolve(entries, q[1], q[2]), first |-> None]
    /\ UNCHANGED entries

\* resolve called on the pair the previous resolve returned.
ResolveAgain ==
    /\ last.op = "resolve"
    /\ last.res.ok
    /\ last.first = None
    /\ last' = [op |-> "resolve", name |-> last.res.val[1], email |-> last.res.val[2],
                res |-> resolve(entries, last.res.val[1], last.res.val[2]),
                first |-> Some(<<last.name, last.email>>)]
    /\ UNCHANGED entries

Next ==
    \/ New
    \/ \E a \in AddArgs : AddEntry(a)
    \/ \E q \in Queries : Resolve(q)
    \/ ResolveAgain

Spec == Init /\ [][Next]_vars

ResolveSignature(sig) ==
    /\ last' = [op |-> "resolve_signature", sig |-> sig,
                res |-> resolve_signature(entries, sig), before |-> entries]
    /\ UNCHANGED entries

NextSig ==
    \/ New
    \/ \E a \in SigAddArgs : AddEntry(a)
    \/ \E g \in Signatures : ResolveSignature(g)

SpecSig == Init /\ [][NextSig]_vars

\* The constructors: each makes the object, so each is taken from the state
\* in which nothing has been called yet.
FromBuffer(ls, nl) ==
    /\ last.op = "new"
    /\ \E buffer \in {Bytes(ls, nl)} :
          \E r \in {from_buffer(buffer)} :
              /\ entries' = IF r.ok THEN r.val ELSE entries
              /\ last' = [op |-> "from_buffer", file |-> ls, newline |-> nl,
                          res |-> IF r.ok THEN Ok(<<>>) ELSE r]

FromRepository(w, b, f, broken) ==
    /\ last.op = "new"
    /\ \E repo \in {[worktree |-> SourceOf(w), blob |-> SourceOf(b),
                      file |-> SourceOf(f), broken |-> broken]} :
          \E r \in {from_repository(repo)} :
              /\ entries' = IF r.ok THEN r.val ELSE entries
              /\ last' = [op |-> "from_repository", worktree |-> w, blob |-> b,
                          file |-> f, broken |-> broken,
                          res |-> IF r.ok THEN Ok(<<>>) ELSE r]

NextLoad ==
    \/ \E ls \in Files, nl \in BOOLEAN : FromBuffer(ls, nl)
    \/ \E w, b, f \in Sources, broken \in BOOLEAN : FromRepository(w, b, f, broken)
    \/ \E q \in Queries : Resolve(q)

SpecLoad == Init /\ [][NextLoad]_vars

---------------------------------------------------------------------------
\* Vocabulary of the properties

\* No string of the call holds an interior zero byte.
NulFree(s) == ~HasNul(s)
OptNulFree(o) == IsSome(o) => ~HasNul(Unwrap(o))

\* Two strings that differ in letter case only.
DiffersInCaseOnly(s, t) == s # t /\ Lower(s) = Lower(t)

\* Entry i of mm is the one the precedence rule applies to (name, email): its
\* replace_email is the email ignoring case, and either its replace_name is
\* the name exactly, or it is absent and no entry of that email carries the name.
Applies(mm, i, name, email) ==
    /\ i \in DOMAIN mm
    /\ Lower(mm[i].replace_email) = Lower(email)
    /\ \/ mm[i].replace_name = Some(name)
       \/ /\ mm[i].replace_name = None
          /\ ~\E j \in DOMAIN mm :
                /\ Lower(mm[j].replace_email) = Lower(email)
                /\ mm[j].replace_name = Some(name)

AppliedTo(mm, name, email) == {i \in DOMAIN mm : Applies(mm, i, name, email)}

\* No entry matches: every entry of the email (ignoring case) is qualified by
\* a different name.
NoMatch(mm, name, email) ==
    \A i \in DOMAIN mm :
        Lower(mm[i].replace_email) = Lower(email)
            => IsSome(mm[i].replace_name) /\ Unwrap(mm[i].replace_name) # name

\* The pair an entry turns (name, email) into.
Substituted(e, name, email) ==
    <<IF IsSome(e.real_name) THEN Unwrap(e.real_name) ELSE name,
      IF IsSome(e.real_email) THEN Unwrap(e.real_email) ELSE email>>

IsAdd == last.op = "add_entry"
IsResolve == last.op = "resolve"
AddedEntry == Entry(last.real_name, last.real_email, last.replace_name, last.replace_email)

\* The positions of the store before the call whose key is exactly the call's.
ExactKeyBefore ==
    {i \in DOMAIN last.before :
        /\ last.before[i].replace_name = last.replace_name
        /\ last.before[i].replace_email = last.replace_email}

\* The key an entry is stored under.
KeyOf(e) == <<e.replace_name, Lower(e.replace_email)>>

\* The entries the sample lines of a file are to give, in file order.
RECURSIVE ExpectedEntries(_)
ExpectedEntries(ls) ==
    IF ls = <<>> THEN <<>>
    ELSE (IF Head(ls).expect = None THEN <<>> ELSE <<Unwrap(Head(ls).expect)>>)
             \o ExpectedEntries(Tail(ls))

ExpectedOfSource(src) ==
    IF src.kind = "bytes" THEN ExpectedEntries(src.file) ELSE <<>>

FirstOf(exp, key) == CHOOSE k \in DOMAIN exp :
    KeyOf(exp[k]) = key /\ \A m \in DOMAIN exp : KeyOf(exp[m]) = key => k <= m

\* The store holds exactly what adding the entries exp in order leaves: one
\* entry per key, the last definition of each key, placed by the key's first
\* definition.
StoreHolds(mm, exp) ==
    /\ \A i \in DOMAIN mm :
          \E k \in DOMAIN exp :
              /\ mm[i] = exp[k]
              /\ \A m \in DOMAIN exp : m > k => KeyOf(exp[m]) # KeyOf(exp[k])
    /\ \A k \in DOMAIN exp : \E i \in DOMAIN mm : KeyOf(mm[i]) = KeyOf(exp[k])
    /\ \A i, j \in DOMAIN mm : i # j => KeyOf(mm[i]) # KeyOf(mm[j])
    /\ \A i, j \in DOMAIN mm :
          i < j => FirstOf(exp, KeyOf(mm[i])) < FirstOf(exp, KeyOf(mm[j]))

IsFromBuffer == last.op = "from_buffer"
IsFromRepository == last.op = "from_repository"
IsResolveSignature == last.op = "resolve_signature"

---------------------------------------------------------------------------
\* Properties

\* C1: add_entry with a (replace_name, replace_email) pair that exactly matches
\* a stored entry replaces that entry at its position: the number of entries
\* is unchanged, every other position is unchanged, and (the call having
\* returned Ok) a resolve of any (name, email) the entry applies to returns the
\* newly supplied real_name / real_email, the query's own where they are absent.
C1_ReplaceInPlace ==
    IsAdd =>
        \A i \in ExactKeyBefore :
            /\ Len(entries) = Len(last.before)
            /\ \A j \in DOMAIN entries : j # i => entries[j] = last.before[j]
            /\ last.res.ok =>
                  /\ entries[i] = AddedEntry
                  /\ \A q \in QueryNames \X QueryEmails :
                        Applies(entries, i, q[1], q[2]) =>
                            resolve(entries, q[1], q[2])
                                = Ok(Substituted(AddedEntry, q[1], q[2]))

\* A successful add_entry over an existing key, which changes the real_name,
\* in a store of two entries.
C1_Witness ==
    /\ IsAdd
    /\ last.res.ok
    /\ Len(last.before) = 2
    /\ \E i \in ExactKeyBefore :
          /\ last.before[i].real_name # last.real_name
          /\ IsSome(last.real_name)
          /\ \E q \in QueryNames \X QueryEmails : Applies(entries, i, q[1], q[2])

\* C2: when the store holds, for the query's email, both an entry qualified by
\* exactly the query's name and a wildcard entry, resolve applies the
\* name-qualified one, whichever was added first; a query of that email whose
\* name equals no stored replace_name gets the wildcard entry.  (Queries are
\* those resolve accepts: no interior zero byte.)
C2_QualifiedBeatsWildcard ==
    (IsResolve /\ NulFree(last.name) /\ NulFree(last.email)) =>
        \A i, j \in DOMAIN entries :
            (/\ Lower(entries[i].replace_email) = Lower(last.email)
             /\ Lower(entries[j].replace_email) = Lower(last.email)
             /\ IsSome(entries[i].replace_name)
             /\ entries[j].replace_name = None)
            => /\ entries[i].replace_name = Some(last.name)
                  => last.res = Ok(Substituted(entries[i], last.name, last.email))
               /\ (\A k \in DOMAIN entries : entries[k].replace_name # Some(last.name))
                  => last.res = Ok(Substituted(entries[j], last.name, last.email))

\* The wildcard entry was added after the name-qualified one, the two give
\* different pairs, and the query carries the qualified name.
C2_Witness ==
    /\ IsResolve
    /\ Len(entries) = 2
    /\ entries[1].replace_name = Some(last.name)
    /\ entries[2].replace_name = None
    /\ Lower(entries[1].replace_email) = Lower(last.email)
    /\ Lower(entries[2].replace_email) = Lower(last.email)
    /\ Substituted(entries[1], last.name, last.email)
          # Substituted(entries[2], last.name, last.email)
    /\ last.res.ok

\* C3 as stated: for every query no entry matches, resolve succeeds and returns
\* the original (name, email).
C3_Original ==
    (IsResolve /\ NoMatch(entries, last.name, last.email))
        => last.res = Ok(<<last.name, last.email>>)

\* C3, amended: for every query that holds no interior zero byte and that no
\* entry matches, resolve succeeds and returns the original (name, email), in
\* its original letter case.
C3_IdentityWhenNoMatch ==
    (/\ IsResolve
     /\ NulFree(last.name)
     /\ NulFree(last.email)
     /\ NoMatch(entries, last.name, last.email))
        => last.res = Ok(<<last.name, last.email>>)

\* An upper-case query against a store whose only entry of that email is
\* qualified by another name.
C3_Witness ==
    /\ IsResolve
    /\ last.res.ok
    /\ last.email = EmailUpperX
    /\ last.name = NameUpperB
    /\ \E i \in DOMAIN entries :
          /\ Lower(entries[i].replace_email) = Lower(last.email)
          /\ IsSome(entries[i].real_name)
          /\ IsSome(entries[i].real_email)
    /\ NoMatch(entries, last.name, last.email)

\* C4: when resolve applies an entry, the output name is the entry's real_name
\* if present and the query name otherwise, and the output email is the
\* entry's real_email if present and the query email otherwise.
C4_FieldsSubstitutedIndependently ==
    (IsResolve /\ last.res.ok) =>
        \A i \in AppliedTo(entries, last.name, last.email) :
            /\ last.res.val[1] = IF IsSome(entries[i].real_name)
                                 THEN Unwrap(entries[i].real_name) ELSE last.name
            /\ last.res.val[2] = IF IsSome(entries[i].real_email)
                                 THEN Unwrap(entries[i].real_email) ELSE last.email

\* A wildcard entry with a real_name and no real_email is applied: the name
\* changes and the email is the query's, as given.
C4_Witness ==
    /\ IsResolve
    /\ last.res.ok
    /\ \E i \in AppliedTo(entries, last.name, last.email) :
          /\ entries[i].replace_name = None
          /\ IsSome(entries[i].real_name)
          /\ entries[i].real_email = None
          /\ last.res.val[1] # last.name
          /\ last.res.val[2] = last.email
          /\ last.email # entries[i].replace_email

\* C5: replace_email matches ignoring case, replace_name matches exactly.  A
\* query whose email differs from an entry's replace_email in case only has
\* that entry applied (if it is qualified by the query's name, or is the
\* wildcard and no entry of the email carries the name); add_entry with a
\* replace_email differing in case only from a stored one of the same
\* replace_name replaces that entry; a query whose name differs from a
\* present replace_name in case only does not get that entry.
C5_EmailCaseInsensitiveNameCaseSensitive ==
    /\ (IsResolve /\ NulFree(last.name) /\ NulFree(last.email)) =>
          \A i \in DOMAIN entries :
              /\ (/\ DiffersInCaseOnly(entries[i].replace_email, last.email)
                  /\ \/ entries[i].replace_name = Some(last.name)
                     \/ /\ entries[i].replace_name = None
                        /\ \A k \in DOMAIN entries :
                              entries[k].replace_name # Some(last.name))
                 => last.res = Ok(Substituted(entries[i], last.name, last.email))
              /\ (/\ Lower(entries[i].replace_email) = Lower(last.email)
                  /\ IsSome(entries[i].replace_name)
                  /\ DiffersInCaseOnly(Unwrap(entries[i].replace_name), last.name))
                 => \/ /\ NoMatch(entries, last.name, last.email)
                       /\ last.res = Ok(<<last.name, last.email>>)
                    \/ \E j \in DOMAIN entries :
                          /\ j # i
                          /\ Applies(entries, j, last.name, last.email)
                          /\ last.res = Ok(Substituted(entries[j], last.name, last.email))
    /\ (IsAdd /\ last.res.ok) =>
          \A i \in DOMAIN last.before :
              (/\ last.before[i].replace_name = last.replace_name
               /\ DiffersInCaseOnly(last.before[i].replace_email, last.replace_email))
              => /\ Len(entries) = Len(last.before)
                 /\ entries[i] = AddedEntry

\* An entry stored under "x" is applied to a query for "X", and changes it.
C5_Witness ==
    /\ IsResolve
    /\ last.res.ok
    /\ last.email = EmailUpperX
    /\ \E i \in AppliedTo(entries, last.name, last.email) :
          /\ entries[i].replace_email = EmailX
          /\ IsSome(entries[i].real_email)
          /\ last.res.val[2] = Unwrap(entries[i].real_email)
          /\ Lower(last.res.val[2]) # Lower(last.email)

\* C6 as stated: resolving the pair resolve returned, against the same store,
\* yields that pair again.
C6_Original ==
    (IsResolve /\ IsSome(last.first))
        => last.res = Ok(<<last.name, last.email>>)

\* C6, amended: resolving the pair resolve returned, against the same store,
\* yields that pair again whenever the returned pair matches no entry or has
\* the same entry applied as the original query had; a store in which another
\* entry matches the returned pair (chained rules) need not give a fixed point.
C6_IdempotentUnlessChained ==
    (/\ IsResolve
     /\ IsSome(last.first)
     /\ AppliedTo(entries, last.name, last.email)
           \subseteq AppliedTo(entries, Unwrap(last.first)[1], Unwrap(last.first)[2]))
        => last.res = Ok(<<last.name, last.email>>)

\* The second resolve applies the entry the first one applied, which had
\* changed the name, in a store of two entries.
C6_Witness ==
    /\ IsResolve
    /\ IsSome(last.first)
    /\ Len(entries) = 2
    /\ Unwrap(last.first)[1] # last.name
    /\ AppliedTo(entries, last.name, last.email) # {}
    /\ AppliedTo(entries, last.name, last.email)
          = AppliedTo(entries, Unwrap(last.first)[1], Unwrap(last.first)[2])

\* C7 as stated: add_entry with an empty replace_email fails with
\* InvalidArgument and leaves the store unchanged; with a non-empty
\* well-formed replace_email it succeeds.
C7_Original ==
    IsAdd =>
        /\ last.replace_email = <<>>
              => last.res = Err("InvalidArgument") /\ entries = last.before
        /\ (last.replace_email # <<>> /\ NulFree(last.replace_email))
              => last.res.ok

\* C7, amended: provided none of the four string arguments holds an interior
\* zero byte, add_entry with an empty replace_email fails with InvalidArgument
\* and with a non-empty one succeeds; an argument with an interior zero byte
\* makes the call fail whatever replace_email is; and every failing call
\* leaves the store unchanged, no entry being stored under the empty key.
C7_EmptyKeyRejected ==
    /\ IsAdd =>
          /\ (/\ OptNulFree(last.real_name)
              /\ OptNulFree(last.real_email)
              /\ OptNulFree(last.replace_name)
              /\ NulFree(last.replace_email))
                => IF last.replace_email = <<>>
                   THEN last.res = Err("InvalidArgument")
                   ELSE last.res.ok
          /\ ~(/\ OptNulFree(last.real_name)
               /\ OptNulFree(last.real_email)
               /\ OptNulFree(last.replace_name)
               /\ NulFree(last.replace_email))
                => ~last.res.ok
          /\ ~last.res.ok => entries = last.before
    /\ \A i \in DOMAIN entries :
          entries[i].replace_email # <<>> /\ NulFree(entries[i].replace_email)

\* add_entry with an empty replace_email was refused on a store holding an
\* entry.
C7_Witness ==
    /\ IsAdd
    /\ last.replace_email = <<>>
    /\ last.res = Err("InvalidArgument")
    /\ Len(entries) > 0

\* C8: from_repository merges the working-tree file, then the blob, then the
\* file, each in file order on top of what is there: the store holds one entry
\* per key, the definition of the last source (and line) that defines the key,
\* and an absent or unreadable source gives no error and takes nothing away
\* from the others.
C8_SourcesMergedInOrder ==
    (IsFromRepository /\ ~last.broken) =>
        /\ last.res.ok
        /\ StoreHolds(entries, ExpectedOfSource(last.worktree)
                                   \o ExpectedOfSource(last.blob)
                                   \o ExpectedOfSource(last.file))

\* The working-tree file and the configured file define the same key
\* differently, the blob cannot be read: the store holds the configured
\* file's definition.
C8_Witness ==
    /\ IsFromRepository
    /\ last.res.ok
    /\ last.worktree.kind = "bytes"
    /\ last.blob.kind = "unreadable"
    /\ last.file.kind = "bytes"
    /\ last.worktree.file = <<LineTwoEmails>>
    /\ last.file.file = <<LineOneEmail>>
    /\ entries = <<Unwrap(LineOneEmail.expect)>>

\* C9: from_buffer never fails because of a malformed line: it succeeds and
\* the store holds exactly the entries of the well-formed lines, in file
\* order; a line without a bracketed email, a line with an unterminated "<"
\* and a "#" comment line give no entry.
C9_MalformedLinesSkipped ==
    IsFromBuffer =>
        /\ last.res.ok
        /\ StoreHolds(entries, ExpectedEntries(last.file))

\* A well-formed line followed by an unterminated one: one entry, no error.
C9_Witness ==
    /\ IsFromBuffer
    /\ last.res.ok
    /\ last.file = <<LineQualified, LineUnterminated>>
    /\ entries = <<Unwrap(LineQualified.expect)>>

\* C10: resolve_signature returns a signature whose (name, email) is what
\* resolve returns for the input's (name, email) on the same store and whose
\* time and offset are the input's; the store is as before; and it fails, with
\* InvalidSignature, only when the resolved name or email cannot be carried
\* by a signature.
C10_SignatureResolved ==
    IsResolveSignature =>
        LET r == resolve(entries, last.sig.name, last.sig.email)
        IN /\ entries = last.before
           /\ r.ok
           /\ last.res.ok =>
                 /\ <<last.res.val.name, last.res.val.email>> = r.val
                 /\ last.res.val.when = last.sig.when
                 /\ last.res.val.offset = last.sig.offset
           /\ ~last.res.ok =>
                 /\ last.res = Err("InvalidSignature")
                 /\ Forbidden(r.val[1]) \/ Forbidden(r.val[2])

\* A signature whose name and email an entry both replaces.
C10_Witness ==
    /\ IsResolveSignature
    /\ last.res.ok
    /\ last.res.val.name # last.sig.name
    /\ last.res.val.email # last.sig.email
    /\ last.sig.when = 2000
    /\ last.sig.offset = -60
    /\ Len(entries) = 2

====
